---- MODULE Spec2Model ----
(***************************************************************************)
(* A model of src/common/json_rpc.go: the lenient JSON-RPC response        *)
(* decoder and its lazily parsed result, the request fingerprint           *)
(* (CacheHash), the translation of internal errors to JSON-RPC exceptions  *)
(* and the per-network client pool of the DRPC adapter.                    *)
(*                                                                         *)
(* The module holds one specification per component; each leaves the       *)
(* variables of the other components at their idle values:                 *)
(*   SpecPool       DrpcHttpJsonRpcClient.getOrCreateClient / SendRequest  *)
(*   SpecParsed     JsonRpcResponse.ParsedResult                           *)
(*   SpecDecode     JsonRpcResponse.UnmarshalJSON                          *)
(*   SpecHash       JsonRpcRequest.CacheHash / hashValue                   *)
(*   SpecTranslate  TranslateToJsonRpcException                            *)
(***************************************************************************)
EXTENDS Integers, Sequences, FiniteSets, TLC

VARIABLES
    \* ---- DrpcHttpJsonRpcClient (the adapter) and its callers ----
    clients,      \* c.clients: network id -> transport client
    mu,           \* c.mu, a sync.RWMutex: [w: the caller holding Lock or 0, r: callers holding RLock]
    pc,           \* pc[p]: where goroutine p stands in SendRequest / getOrCreateClient
    network,      \* network[p]: req.Network() of p's current call (Nil when missing)
    client,       \* client[p]: the local `client` of p's call
    exists,       \* exists[p]: the local `exists` of p's call
    err,          \* err[p]: the local `err` of p's call
    built,        \* every transport client constructed so far, with the network it was built for
    resolved,     \* every (network, client, err) a getOrCreateClient call returned so far
    out,          \* out[p]: what p's SendRequest returned, and the client it sent on
    \* ---- JsonRpcResponse.ParsedResult ----
    Result,       \* r.Result, the raw payload (a payload class)
    parsedResult, \* r.parsedResult, the memoized value
    rmu,          \* the response's embedded sync.RWMutex
    ppc,          \* ppc[p]: where goroutine p stands in ParsedResult
    pret,         \* pret[p]: what p's last ParsedResult call returned
    parses,       \* how many times sonic.Unmarshal(r.Result, &r.parsedResult) ran
    returned,     \* every (value, error) a ParsedResult call returned so far
    recovered,    \* recovered[p]: p's current call went through recover()
    \* ---- JsonRpcResponse.UnmarshalJSON ----
    data,         \* <<the input body>>
    resp,         \* <<the response r>>: fresh before the call, as the call left it after
    dret,         \* <<what UnmarshalJSON did>>: returned nil, returned an error, or panicked
    \* ---- JsonRpcRequest.CacheHash ----
    reqs,         \* the two requests compared
    hashes,       \* their CacheHash results
    \* ---- TranslateToJsonRpcException ----
    terr,         \* <<the internal error handed in>>
    tout,         \* <<the error returned>>, empty before the call
    \* ---- DrpcHttpJsonRpcClient.SupportsNetwork ----
    networkId,    \* <<the identifier asked about>>, a string as its characters
    supports      \* <<what SupportsNetwork returned>>, empty before the call

poolVars   == <<clients, mu, pc, network, client, exists, err, built, resolved, out>>
parsedVars == <<Result, parsedResult, rmu, ppc, pret, parses, returned, recovered>>
decodeVars == <<data, resp, dret>>
hashVars   == <<reqs, hashes>>
transVars  == <<terr, tout>>
supVars    == <<networkId, supports>>
vars == <<poolVars, parsedVars, decodeVars, hashVars, transVars, supVars>>

\* Go's nil, for every type
Nil == "nil"

(***************************************************************************)
(* Bounds                                                                  *)
(***************************************************************************)
\* goroutines calling the adapter (or one response), each making one call; a
\* goroutine may start when others have returned, so calls also follow each other
NumCallers == 3
\* the longest chain of causes of an internal error
MaxChain == 2
\* the most parameters of a request
MaxParams == 2

Callers == 1 .. NumCallers

(***************************************************************************)
(* The adapter: DrpcHttpJsonRpcClient                                      *)
(***************************************************************************)

\* common.ArchitectureEvm
ArchitectureEvm == "evm"

\* The Chain Registry: entries of drpcNetworkNames (the table has about one
\* hundred; three of them stand for it, and chain 2 is not among its keys).
drpcNetworkNames == (1 :> "ethereum") @@ (10 :> "optimism") @@ (100 :> "gnosis")

\* The networks requests carry.  chainErr: network.EvmChainId() fails.
Networks ==
    { [arch |-> ArchitectureEvm, chain |-> 1,  chainErr |-> FALSE],
      [arch |-> ArchitectureEvm, chain |-> 10, chainErr |-> FALSE],
      [arch |-> ArchitectureEvm, chain |-> 2,  chainErr |-> FALSE],
      [arch |-> ArchitectureEvm, chain |-> 0,  chainErr |-> TRUE],
      [arch |-> "solana",        chain |-> 1,  chainErr |-> FALSE] }

\* req.Network() == nil
NilNetwork == [arch |-> "nil", chain |-> 0, chainErr |-> FALSE]

\* network.Id(): the logical identifier "<architecture>:<chainId>"
Id(n) == <<n.arch, n.chain>>

\* the adapter's API key (NewDrpcHttpJsonRpcClient takes it from the URL's host)
apiKey == "dkey"

\* an endpoint URL that always names the first network of the registry
drpcURLOfFirst(netName) ==
    <<"https://lb.drpc.org/ogrpc?network=", drpcNetworkNames[1], "&dkey=", apiKey>>

\* fmt.Sprintf("https://lb.drpc.org/ogrpc?network=%s&dkey=%s", netName, c.apiKey)
drpcURL(netName) == <<"https://lb.drpc.org/ogrpc?network=", netName, "&dkey=", apiKey>>

\* NewGenericHttpJsonRpcClient(&c.upstream.Logger, c.upstream, parsedURL): a
\* fresh transport client for the URL; k numbers the instances.
NewGenericHttpJsonRpcClient(url, k) == [inst |-> k, url |-> url]

\* a nil HttpJsonRpcClient
NoClient == [inst |-> 0, url |-> <<>>]

\* the errors of lines 528, 533, 538 and 559
ErrArchitecture == "unsupported network architecture for DRPC client"
ErrEvmChainId   == "EvmChainId failed"
ErrChainID      == "unsupported network chain ID for DRPC"
ErrNoNetwork    == "network information is missing in the request"

\* client, exists := c.clients[networkID]
Lookup(m, id) ==
    IF id \in DOMAIN m THEN [client |-> m[id], exists |-> TRUE]
                       ELSE [client |-> NoClient, exists |-> FALSE]

\* A getOrCreateClient without its second check (the naive single-check version).
DoubleCheckSkipped(m, id) == [client |-> NoClient, exists |-> FALSE]

\* line 523: the second check, under the exclusive lock
DoubleCheck(m, id) == Lookup(m, id)

\* A registry lookup that maps an unknown chain id to a default slug.
ValidateSilentlyMapped(n) ==
    IF n.arch # ArchitectureEvm THEN [netName |-> "", err |-> ErrArchitecture]
    ELSE IF n.chainErr THEN [netName |-> "", err |-> ErrEvmChainId]
    ELSE IF n.chain \notin DOMAIN drpcNetworkNames
         THEN [netName |-> drpcNetworkNames[1], err |-> Nil]
    ELSE [netName |-> drpcNetworkNames[n.chain], err |-> Nil]

\* lines 527-539: the architecture, the chain id and the Chain Registry lookup
Validate(n) ==
    IF n.arch # ArchitectureEvm THEN [netName |-> "", err |-> ErrArchitecture]
    ELSE IF n.chainErr THEN [netName |-> "", err |-> ErrEvmChainId]
    ELSE IF n.chain \notin DOMAIN drpcNetworkNames
         THEN [netName |-> "", err |-> ErrChainID]
    ELSE [netName |-> drpcNetworkNames[n.chain], err |-> Nil]

\* a map that keeps only its newest entry
StoreEvicting(m, id, c) == [x \in {id} |-> c]

\* c.clients[networkID] = client
Store(m, id, c) == [x \in DOMAIN m \cup {id} |-> IF x = id THEN c ELSE m[x]]

\* What a SendRequest returned; sentOn is the transport client it delegated to
\* (0: none) and ctx the caller whose context the send was made with.
NoOut == [resp |-> <<>>, err |-> Nil, sentOn |-> 0, ctx |-> 0]

\* SendRequest, lines 557-562: the request's network, and the call of getOrCreateClient
SendRequest(p) ==
    /\ pc[p] = "idle"
    /\ \E n \in Networks \cup {NilNetwork} :
          /\ network' = [network EXCEPT ![p] = n]
          /\ IF n = NilNetwork
             THEN /\ out' = [out EXCEPT ![p] = [NoOut EXCEPT !.err = ErrNoNetwork]]
                  /\ pc' = [pc EXCEPT ![p] = "done"]
             ELSE /\ out' = out
                  /\ pc' = [pc EXCEPT ![p] = "RLock"]
    /\ UNCHANGED <<clients, mu, client, exists, err, built, resolved>>
    /\ UNCHANGED <<parsedVars, decodeVars, hashVars, transVars, supVars>>

\* lines 511-512: c.mu.RLock(), and client, exists := c.clients[networkID] under it
RLock(p) ==
    /\ pc[p] = "RLock"
    /\ mu.w = 0
    /\ mu' = [mu EXCEPT !.r = @ \cup {p}]
    /\ LET l == Lookup(clients, Id(network[p])) IN
          /\ client' = [client EXCEPT ![p] = l.client]
          /\ exists' = [exists EXCEPT ![p] = l.exists]
    /\ pc' = [pc EXCEPT ![p] = "RUnlock"]
    /\ UNCHANGED <<clients, network, err, built, resolved, out>>
    /\ UNCHANGED <<parsedVars, decodeVars, hashVars, transVars, supVars>>

\* lines 513-517: c.mu.RUnlock(), then the return of the fast path
RUnlock(p) ==
    /\ pc[p] = "RUnlock"
    /\ mu' = [mu EXCEPT !.r = @ \ {p}]
    /\ IF exists[p]
       THEN /\ resolved' = resolved \cup
                   {[network |-> Id(network[p]), client |-> client[p], err |-> Nil]}
            /\ pc' = [pc EXCEPT ![p] = "resolved"]
       ELSE /\ resolved' = resolved
            /\ pc' = [pc EXCEPT ![p] = "Lock"]
    /\ UNCHANGED <<clients, network, client, exists, err, built, out>>
    /\ UNCHANGED <<parsedVars, decodeVars, hashVars, transVars, supVars>>

\* an exclusive lock that is taken without waiting for its holders
LockWithoutWaiting(p) ==
    /\ pc[p] = "Lock"
    /\ mu' = [mu EXCEPT !.w = p]
    /\ pc' = [pc EXCEPT ![p] = "locked"]
    /\ UNCHANGED <<clients, network, client, exists, err, built, resolved, out>>
    /\ UNCHANGED <<parsedVars, decodeVars, hashVars, transVars, supVars>>

\* line 519: c.mu.Lock()
Lock(p) ==
    /\ pc[p] = "Lock"
    /\ mu.w = 0
    /\ mu.r = {}
    /\ mu' = [mu EXCEPT !.w = p]
    /\ pc' = [pc EXCEPT ![p] = "locked"]
    /\ UNCHANGED <<clients, network, client, exists, err, built, resolved, out>>
    /\ UNCHANGED <<parsedVars, decodeVars, hashVars, transVars, supVars>>

\* lines 523-553, under the exclusive lock: the second check, the validation of
\* the network, the new transport client and its entry in the map
CheckAndBuild(p) ==
    /\ pc[p] = "locked"
    /\ LET id == Id(network[p])
           dc == DoubleCheck(clients, id)
           v  == Validate(network[p])
           c  == NewGenericHttpJsonRpcClient(drpcURL(v.netName), Cardinality(built) + 1)
       IN IF dc.exists
          THEN /\ client' = [client EXCEPT ![p] = dc.client]
               /\ err' = [err EXCEPT ![p] = Nil]
               /\ UNCHANGED <<clients, built>>
          ELSE IF v.err # Nil
          THEN /\ client' = [client EXCEPT ![p] = NoClient]
               /\ err' = [err EXCEPT ![p] = v.err]
               /\ UNCHANGED <<clients, built>>
          ELSE /\ built' = built \cup {[network |-> id, client |-> c]}
               /\ clients' = Store(clients, id, c)
               /\ client' = [client EXCEPT ![p] = c]
               /\ err' = [err EXCEPT ![p] = Nil]
    /\ pc' = [pc EXCEPT ![p] = "Unlock"]
    /\ UNCHANGED <<mu, network, exists, resolved, out>>
    /\ UNCHANGED <<parsedVars, decodeVars, hashVars, transVars, supVars>>

\* a return of getOrCreateClient that leaves the exclusive lock held
UnlockForgotten(p) ==
    /\ pc[p] = "Unlock"
    /\ resolved' = resolved \cup
          {[network |-> Id(network[p]), client |-> client[p], err |-> err[p]]}
    /\ pc' = [pc EXCEPT ![p] = "resolved"]
    /\ UNCHANGED <<clients, mu, network, client, exists, err, built, out>>
    /\ UNCHANGED <<parsedVars, decodeVars, hashVars, transVars, supVars>>

\* line 520: the deferred c.mu.Unlock(), and the return of getOrCreateClient
Unlock(p) ==
    /\ pc[p] = "Unlock"
    /\ mu' = [mu EXCEPT !.w = 0]
    /\ resolved' = resolved \cup
          {[network |-> Id(network[p]), client |-> client[p], err |-> err[p]]}
    /\ pc' = [pc EXCEPT ![p] = "resolved"]
    /\ UNCHANGED <<clients, network, client, exists, err, built, out>>
    /\ UNCHANGED <<parsedVars, decodeVars, hashVars, transVars, supVars>>

\* the outcomes of the transport client's SendRequest: a response or a transport error
SendOutcomes == {"response", "transport error"}

\* client.SendRequest(ctx, req) on transport client c: what it returns
TransportSend(c, o, ctx) ==
    IF o = "response"
    THEN [resp |-> <<o, c.inst>>, err |-> Nil, sentOn |-> c.inst, ctx |-> ctx]
    ELSE [resp |-> <<>>, err |-> o, sentOn |-> c.inst, ctx |-> ctx]

\* a SendRequest that sends whether or not the resolution failed
SendResultUnchecked(e, sent) == sent

\* lines 562-567: the error of the resolution, or else what the send returned
SendResult(e, sent) == IF e # Nil THEN [NoOut EXCEPT !.err = e] ELSE sent

\* lines 563-567: the error of the resolution, or the send on the resolved client
Delegate(p) ==
    /\ pc[p] = "resolved"
    /\ \E o \in SendOutcomes :
          out' = [out EXCEPT ![p] = SendResult(err[p], TransportSend(client[p], o, p))]
    /\ pc' = [pc EXCEPT ![p] = "done"]
    /\ UNCHANGED <<clients, mu, network, client, exists, err, built, resolved>>
    /\ UNCHANGED <<parsedVars, decodeVars, hashVars, transVars, supVars>>

PoolIdle ==
    /\ clients = [x \in {} |-> NoClient]
    /\ mu = [w |-> 0, r |-> {}]
    /\ pc = [p \in Callers |-> "idle"]
    /\ network = [p \in Callers |-> NilNetwork]
    /\ client = [p \in Callers |-> NoClient]
    /\ exists = [p \in Callers |-> FALSE]
    /\ err = [p \in Callers |-> Nil]
    /\ built = {}
    /\ resolved = {}
    /\ out = [p \in Callers |-> NoOut]

ParsedIdle ==
    /\ Result = Nil
    /\ parsedResult = Nil
    /\ rmu = [w |-> 0, r |-> {}]
    /\ ppc = [p \in Callers |-> "idle"]
    /\ pret = [p \in Callers |-> <<Nil, Nil>>]
    /\ parses = 0
    /\ returned = {}
    /\ recovered = [p \in Callers |-> FALSE]

\* no call of the other components: their inputs and results are not there
DecodeIdle == data = <<>> /\ resp = <<>> /\ dret = <<>>
HashIdle == reqs = <<>> /\ hashes = <<>>
TransIdle == terr = <<>> /\ tout = <<>>
SupIdle == networkId = <<>> /\ supports = <<>>

\* the adapter after NewDrpcHttpJsonRpcClient: an empty map, nobody calling
InitPool == PoolIdle /\ ParsedIdle /\ DecodeIdle /\ HashIdle /\ TransIdle /\ SupIdle

NextPool ==
    \E p \in Callers :
        \/ SendRequest(p)
        \/ RLock(p)
        \/ RUnlock(p)
        \/ Lock(p)
        \/ CheckAndBuild(p)
        \/ Unlock(p)
        \/ Delegate(p)

SpecPool == InitPool /\ [][NextPool]_vars

(***************************************************************************)
(* Claims about the adapter                                                *)
(***************************************************************************)

\* an EVM network whose chain id is a key of the Chain Registry
Supported(n) ==
    n.arch = ArchitectureEvm /\ ~n.chainErr /\ n.chain \in DOMAIN drpcNetworkNames

Unsupported(n) == n # NilNetwork /\ ~Supported(n)

BuiltFor(id) == {b \in built : b.network = id}

ResolvedFor(id) == {r \in resolved : r.network = id}

C7_UnsupportedRejected ==
    [][\A p \in Callers :
          (pc[p] # "idle" /\ Unsupported(network[p]) /\ pc'[p] # pc[p]) =>
              /\ clients' = clients
              /\ built' = built
              /\ Id(network[p]) \notin DOMAIN clients'
              /\ (pc'[p] = "resolved" => err'[p] # Nil /\ client'[p] = NoClient)
              /\ (pc'[p] = "done" => out'[p].err # Nil /\ out'[p].sentOn = 0)]_vars

\* C7 witness: a call for a chain id outside the registry and a call for a
\* non-EVM network have both failed, while another call built a client.
C7_Witness ==
    /\ \E p \in Callers :
          pc[p] = "done" /\ network[p].chain = 2 /\ out[p].err = ErrChainID
    /\ \E p \in Callers :
          pc[p] = "done" /\ network[p].arch = "solana" /\ out[p].err = ErrArchitecture
    /\ built # {}
    /\ \A id \in DOMAIN clients : id \in {Id(n) : n \in {m \in Networks : Supported(m)}}

(***************************************************************************)
(* The response's lazily parsed result: JsonRpcResponse.ParsedResult       *)
(***************************************************************************)

\* The raw result payloads r.Result of a response: absent (nil), the JSON null
\* (what NewJsonRpcResponse stores for a nil result), a JSON value, bytes that
\* are no JSON, and bytes on which the decoder faults.
Payloads == {Nil, "null", "\"0x1\"", "{\"a\":", "faults"}

\* what the deferred recover() leaves the caller with: the zero values of the
\* unnamed results (interface{}, error)
Recovered == <<Nil, Nil>>

\* sonic.Unmarshal(r.Result, &r.parsedResult): val is the value the decode
\* leaves in r.parsedResult (the JSON null decodes to a nil interface value),
\* err its error, panic whether it faulted.
Unmarshal(payload) ==
    IF payload = "null" THEN [val |-> Nil, err |-> Nil, panic |-> FALSE]
    ELSE IF payload = "\"0x1\"" THEN [val |-> "0x1", err |-> Nil, panic |-> FALSE]
    ELSE IF payload = "faults" THEN [val |-> Nil, err |-> Nil, panic |-> TRUE]
    ELSE [val |-> Nil, err |-> "syntax error", panic |-> FALSE]

\* a goroutine calls r.ParsedResult()
ParsedResult(p) ==
    /\ ppc[p] = "idle"
    /\ ppc' = [ppc EXCEPT ![p] = "RLock"]
    /\ UNCHANGED <<Result, parsedResult, rmu, pret, parses, returned, recovered>>
    /\ UNCHANGED <<poolVars, decodeVars, hashVars, transVars, supVars>>

\* lines 42-46: r.RLock() and the first check of r.parsedResult
ParsedRLock(p) ==
    /\ ppc[p] = "RLock"
    /\ rmu.w = 0
    /\ rmu' = [rmu EXCEPT !.r = @ \cup {p}]
    /\ IF parsedResult # Nil
       THEN /\ pret' = [pret EXCEPT ![p] = <<parsedResult, Nil>>]
            /\ ppc' = [ppc EXCEPT ![p] = "RUnlock return"]
       ELSE /\ pret' = pret
            /\ ppc' = [ppc EXCEPT ![p] = "RUnlock"]
    /\ UNCHANGED <<Result, parsedResult, parses, returned, recovered>>
    /\ UNCHANGED <<poolVars, decodeVars, hashVars, transVars, supVars>>

\* lines 44-47: r.RUnlock(), deferred on the fast path (the call returns), or
\* on the way to the exclusive lock
ParsedRUnlock(p) ==
    /\ ppc[p] \in {"RUnlock", "RUnlock return"}
    /\ rmu' = [rmu EXCEPT !.r = @ \ {p}]
    /\ IF ppc[p] = "RUnlock return"
       THEN /\ returned' = returned \cup {pret[p]}
            /\ ppc' = [ppc EXCEPT ![p] = "done"]
       ELSE /\ returned' = returned
            /\ ppc' = [ppc EXCEPT ![p] = "Lock"]
    /\ UNCHANGED <<Result, parsedResult, pret, parses, recovered>>
    /\ UNCHANGED <<poolVars, decodeVars, hashVars, transVars, supVars>>

\* line 49: r.Lock()
ParsedLock(p) ==
    /\ ppc[p] = "Lock"
    /\ rmu.w = 0
    /\ rmu.r = {}
    /\ rmu' = [rmu EXCEPT !.w = p]
    /\ ppc' = [ppc EXCEPT ![p] = "locked"]
    /\ UNCHANGED <<Result, parsedResult, pret, parses, returned, recovered>>
    /\ UNCHANGED <<poolVars, decodeVars, hashVars, transVars, supVars>>

\* lines 52-73, under the exclusive lock: the second check, the absent result,
\* the decode of the payload into r.parsedResult, and recover() after a fault
ParsedCompute(p) ==
    /\ ppc[p] = "locked"
    /\ IF parsedResult # Nil
       THEN /\ pret' = [pret EXCEPT ![p] = <<parsedResult, Nil>>]
            /\ UNCHANGED <<parsedResult, parses, recovered>>
       ELSE IF Result = Nil
       THEN /\ pret' = [pret EXCEPT ![p] = <<Nil, Nil>>]
            /\ UNCHANGED <<parsedResult, parses, recovered>>
       ELSE LET u == Unmarshal(Result) IN
            /\ parses' = parses + 1
            /\ parsedResult' = u.val
            /\ recovered' = [recovered EXCEPT ![p] = u.panic]
            /\ pret' = [pret EXCEPT ![p] =
                           IF u.panic THEN Recovered
                           ELSE IF u.err # Nil THEN <<Nil, u.err>>
                           ELSE <<u.val, Nil>>]
    /\ ppc' = [ppc EXCEPT ![p] = "Unlock"]
    /\ UNCHANGED <<Result, rmu, returned>>
    /\ UNCHANGED <<poolVars, decodeVars, hashVars, transVars, supVars>>

\* line 50: the deferred r.Unlock(), and the return
ParsedUnlock(p) ==
    /\ ppc[p] = "Unlock"
    /\ rmu' = [rmu EXCEPT !.w = 0]
    /\ returned' = returned \cup {pret[p]}
    /\ ppc' = [ppc EXCEPT ![p] = "done"]
    /\ UNCHANGED <<Result, parsedResult, pret, parses, recovered>>
    /\ UNCHANGED <<poolVars, decodeVars, hashVars, transVars, supVars>>

\* a response holding any payload, nothing parsed yet, nobody calling
InitParsed ==
    /\ Result \in Payloads
    /\ parsedResult = Nil
    /\ rmu = [w |-> 0, r |-> {}]
    /\ ppc = [p \in Callers |-> "idle"]
    /\ pret = [p \in Callers |-> <<Nil, Nil>>]
    /\ parses = 0
    /\ returned = {}
    /\ recovered = [p \in Callers |-> FALSE]
    /\ PoolIdle /\ DecodeIdle /\ HashIdle /\ TransIdle /\ SupIdle

NextParsed ==
    \E p \in Callers :
        \/ ParsedResult(p)
        \/ ParsedRLock(p)
        \/ ParsedRUnlock(p)
        \/ ParsedLock(p)
        \/ ParsedCompute(p)
        \/ ParsedUnlock(p)

SpecParsed == InitParsed /\ [][NextParsed]_vars

(***************************************************************************)
(* Claims about ParsedResult                                               *)
(***************************************************************************)

\* C2 (as claimed): over the lifetime of a response the payload is decoded at
\* most once, and all ParsedResult calls return the same (value, error).
C2_ParsedOnceSameValue ==
    /\ parses <= 1
    /\ Cardinality(returned) <= 1

\* C8 (as claimed): a call in which the decode faulted returns a nil value
\* together with a non-nil error.
C8_FaultReturnsError ==
    \A p \in Callers :
        (ppc[p] = "done" /\ recovered[p]) => (pret[p][1] = Nil /\ pret[p][2] # Nil)

(***************************************************************************)
(* TranslateToJsonRpcException                                             *)
(***************************************************************************)

\* the error codes the translation asks for (lines 290-312), and one it does not
ErrCodeJsonRpcExceptionInternal      == "ErrJsonRpcExceptionInternal"
ErrCodeAuthRateLimitRuleExceeded     == "ErrAuthRateLimitRuleExceeded"
ErrCodeProjectRateLimitRuleExceeded  == "ErrProjectRateLimitRuleExceeded"
ErrCodeNetworkRateLimitRuleExceeded  == "ErrNetworkRateLimitRuleExceeded"
ErrCodeUpstreamRateLimitRuleExceeded == "ErrUpstreamRateLimitRuleExceeded"
ErrCodeAuthUnauthorized              == "ErrAuthUnauthorized"
ErrCodeOther                         == "ErrUpstreamRequest"

ErrorCodes ==
    { ErrCodeJsonRpcExceptionInternal, ErrCodeAuthRateLimitRuleExceeded,
      ErrCodeProjectRateLimitRuleExceeded, ErrCodeNetworkRateLimitRuleExceeded,
      ErrCodeUpstreamRateLimitRuleExceeded, ErrCodeAuthUnauthorized, ErrCodeOther }

\* the JSON-RPC codes of lines 303, 316 and 330
JsonRpcErrorCapacityExceeded    == "JsonRpcErrorCapacityExceeded"
JsonRpcErrorUnauthorized        == "JsonRpcErrorUnauthorized"
JsonRpcErrorServerSideException == "JsonRpcErrorServerSideException"

\* One error of a chain: its code, its message and, for a JSON-RPC exception,
\* its normalized JSON-RPC code.
Frame(code) ==
    [code |-> code, msg |-> code,
     normalizedCode |-> IF code = ErrCodeJsonRpcExceptionInternal
                        THEN JsonRpcErrorServerSideException ELSE "none"]

\* An error value: std says whether it is a StandardError; chain lists it and
\* its causes, outermost first.  A plain Go error is a chain of one.
PlainError == [std |-> FALSE, chain |-> <<[code |-> "none", msg |-> "boom", normalizedCode |-> "none"]>>]

Chains(n) == UNION {[1 .. k -> {Frame(c) : c \in ErrorCodes}] : k \in 1 .. n}

InternalErrors == {PlainError} \cup {[std |-> TRUE, chain |-> ch] : ch \in Chains(MaxChain)}

\* HasErrorCode(err, codes...): err is a StandardError and it, or one of its
\* causes, carries one of the codes
HasErrorCode(e, codes) ==
    e.std /\ \E i \in 1 .. Len(e.chain) : e.chain[i].code \in codes

\* StandardError.DeepestMessage(): the message of the last cause
DeepestMessage(e) == e.chain[Len(e.chain)].msg

\* NewErrJsonRpcExceptionInternal(originalCode, normalizedCode, message, cause, data)
NewErrJsonRpcExceptionInternal(normalizedCode, message, cause) ==
    [std |-> TRUE,
     chain |-> <<[code |-> ErrCodeJsonRpcExceptionInternal, msg |-> message,
                  normalizedCode |-> normalizedCode]>> \o cause.chain]

\* A translation that asks for the unauthorized code before the rate-limit codes.
TranslateUnauthorizedFirst(e) ==
    IF HasErrorCode(e, {ErrCodeJsonRpcExceptionInternal}) THEN e
    ELSE IF HasErrorCode(e, {ErrCodeAuthUnauthorized})
         THEN NewErrJsonRpcExceptionInternal(JsonRpcErrorUnauthorized, "unauthorized", e)
    ELSE IF HasErrorCode(e, {ErrCodeAuthRateLimitRuleExceeded, ErrCodeProjectRateLimitRuleExceeded,
                             ErrCodeNetworkRateLimitRuleExceeded, ErrCodeUpstreamRateLimitRuleExceeded})
         THEN NewErrJsonRpcExceptionInternal(JsonRpcErrorCapacityExceeded, "rate-limit exceeded", e)
    ELSE NewErrJsonRpcExceptionInternal(JsonRpcErrorServerSideException,
             IF e.std THEN DeepestMessage(e) ELSE "internal server error", e)

\* lines 289-335
TranslateToJsonRpcException(e) ==
    IF HasErrorCode(e, {ErrCodeJsonRpcExceptionInternal}) THEN e
    ELSE IF HasErrorCode(e, {ErrCodeAuthRateLimitRuleExceeded, ErrCodeProjectRateLimitRuleExceeded,
                             ErrCodeNetworkRateLimitRuleExceeded, ErrCodeUpstreamRateLimitRuleExceeded})
         THEN NewErrJsonRpcExceptionInternal(JsonRpcErrorCapacityExceeded, "rate-limit exceeded", e)
    ELSE IF HasErrorCode(e, {ErrCodeAuthUnauthorized})
         THEN NewErrJsonRpcExceptionInternal(JsonRpcErrorUnauthorized, "unauthorized", e)
    ELSE NewErrJsonRpcExceptionInternal(JsonRpcErrorServerSideException,
             IF e.std THEN DeepestMessage(e) ELSE "internal server error", e)

\* the call
Translate ==
    /\ tout = <<>>
    /\ tout' = <<TranslateToJsonRpcException(terr[1])>>
    /\ UNCHANGED terr
    /\ UNCHANGED <<poolVars, parsedVars, decodeVars, hashVars, supVars>>

InitTranslate ==
    /\ terr \in {<<e>> : e \in InternalErrors}
    /\ tout = <<>>
    /\ PoolIdle /\ ParsedIdle /\ DecodeIdle /\ HashIdle /\ SupIdle

NextTranslate == Translate

SpecTranslate == InitTranslate /\ [][NextTranslate]_vars

(***************************************************************************)
(* Claims about TranslateToJsonRpcException                                *)
(***************************************************************************)

\* the codes an error and its causes carry, read off the chain
CodesOf(e) == IF e.std THEN {e.chain[i].code : i \in 1 .. Len(e.chain)} ELSE {}

RateLimitCodes ==
    { ErrCodeAuthRateLimitRuleExceeded, ErrCodeProjectRateLimitRuleExceeded,
      ErrCodeNetworkRateLimitRuleExceeded, ErrCodeUpstreamRateLimitRuleExceeded }

\* C6: the translation always returns a JSON-RPC exception, chosen by the first
\* rule that matches: (1) an error carrying the internal JSON-RPC exception code
\* is returned unchanged; (2) else one carrying a rate-limit code gives the
\* capacity-exceeded code and "rate-limit exceeded"; (3) else an unauthorized
\* one gives the unauthorized code and "unauthorized"; (4) every other error
\* gives the server-side-exception code.  New exceptions wrap the error.
C6_TranslationRules ==
    tout # <<>> =>
        LET e == terr[1]
            t == tout[1]
            top == t.chain[1]
        IN /\ ErrCodeJsonRpcExceptionInternal \in CodesOf(t)
           /\ IF ErrCodeJsonRpcExceptionInternal \in CodesOf(e) THEN t = e
              ELSE /\ top.code = ErrCodeJsonRpcExceptionInternal
                   /\ SubSeq(t.chain, 2, Len(t.chain)) = e.chain
                   /\ IF CodesOf(e) \cap RateLimitCodes # {}
                      THEN top.normalizedCode = JsonRpcErrorCapacityExceeded
                           /\ top.msg = "rate-limit exceeded"
                      ELSE IF ErrCodeAuthUnauthorized \in CodesOf(e)
                      THEN top.normalizedCode = JsonRpcErrorUnauthorized
                           /\ top.msg = "unauthorized"
                      ELSE top.normalizedCode = JsonRpcErrorServerSideException

\* C6 witness: an error that is both unauthorized and rate-limited was
\* translated by the earlier rule, to the capacity-exceeded code.
C6_Witness ==
    /\ tout # <<>>
    /\ ErrCodeAuthUnauthorized \in CodesOf(terr[1])
    /\ CodesOf(terr[1]) \cap RateLimitCodes # {}
    /\ tout[1].chain[1].normalizedCode = JsonRpcErrorCapacityExceeded

(***************************************************************************)
(* The request fingerprint: JsonRpcRequest.CacheHash and hashValue         *)
(***************************************************************************)

\* A byte string is a sequence of one-character strings.  The bytes used, with
\* their ASCII codes (sort.Strings orders keys byte by byte).
Byte == ("1" :> 49) @@ ("A" :> 65) @@ ("K" :> 75) @@ ("a" :> 97) @@ ("j" :> 106) @@ ("k" :> 107)

\* strings.ToLower, byte by byte
LowerByte(c) == IF c = "A" THEN "a" ELSE IF c = "K" THEN "k" ELSE c

ToLower(s) == [i \in 1 .. Len(s) |-> LowerByte(s[i])]

\* Parameter values, as <<type, value>>: the Go types hashValue switches on,
\* and nil (a JSON null) for a type it does not know.  A float64 is held in
\* millionths; a map is held as its entries in the order `range` yields them.
BoolV(b)    == <<"bool", b>>
IntV(n)     == <<"int", n>>
Float64V(m) == <<"float64", m>>
StringV(s)  == <<"string", s>>
ListV(l)    == <<"[]interface{}", l>>
MapV(m)     == <<"map[string]interface{}", m>>
NilValue   == <<"nil", 0>>

\* the parameter values requests are made of: strings that differ in case
\* and in length, a list of a string, a list of the other scalars, a nil, and
\* maps that differ in the order of their entries or in the case of a key
ParamValues ==
    { StringV(<<"a">>), StringV(<<"A">>), StringV(<<"a", "a">>),
      ListV(<<StringV(<<"a">>)>>),
      ListV(<<IntV(1), BoolV(TRUE), Float64V(1000000)>>),
      NilValue,
      MapV(<< <<(<<"j">>), StringV(<<"a">>)>>, <<(<<"k">>), StringV(<<"A">>)>> >>),
      MapV(<< <<(<<"k">>), StringV(<<"A">>)>>, <<(<<"j">>), StringV(<<"a">>)>> >>),
      MapV(<< <<(<<"j">>), StringV(<<"a">>)>>, <<(<<"K">>), StringV(<<"A">>)>> >>) }

Methods == {"eth_getBalance", "eth_call"}

ParamLists == UNION {[1 .. n -> ParamValues] : n \in 0 .. MaxParams}

Requests == {[Method |-> m, Params |-> ps] : m \in Methods, ps \in ParamLists}

Digits == <<"0", "1", "2", "3", "4", "5", "6", "7", "8", "9">>

\* fmt.Sprintf("%d", n), n >= 0
RECURSIVE FormatInt(_)
FormatInt(n) ==
    IF n < 10 THEN <<Digits[n + 1]>> ELSE FormatInt(n \div 10) \o <<Digits[(n % 10) + 1]>>

\* fmt.Sprintf("%f", f): six decimals
FormatFloat(m) ==
    LET frac == FormatInt(1000000 + (m % 1000000))
    IN FormatInt(m \div 1000000) \o <<".">> \o SubSeq(frac, 2, 7)

\* fmt.Sprintf("%t", b)
FormatBool(b) == IF b THEN <<"t", "r", "u", "e">> ELSE <<"f", "a", "l", "s", "e">>

\* s < t, byte by byte
RECURSIVE StringLess(_, _)
StringLess(s, t) ==
    IF t = <<>> THEN FALSE
    ELSE IF s = <<>> THEN TRUE
    ELSE IF Byte[Head(s)] # Byte[Head(t)] THEN Byte[Head(s)] < Byte[Head(t)]
    ELSE StringLess(Tail(s), Tail(t))

\* Keys left in the order `range` yielded them.
KeysUnsorted(keys) == keys

\* sort.Strings(keys)
RECURSIVE SortStrings(_)
SortStrings(keys) ==
    IF keys = <<>> THEN <<>>
    ELSE LET i == CHOOSE i \in 1 .. Len(keys) :
                      \A j \in 1 .. Len(keys) : ~StringLess(keys[j], keys[i])
             rest == [j \in 1 .. Len(keys) - 1 |-> IF j < i THEN keys[j] ELSE keys[j + 1]]
         IN <<keys[i]>> \o SortStrings(rest)

\* t[k] of a map held as entries
MapValue(entries, k) == entries[CHOOSE i \in 1 .. Len(entries) : entries[i][1] = k][2]

\* what hashValue wrote to the hasher, and its error
Written(bytes) == [out |-> bytes, err |-> Nil]

ErrUnsupportedType == "unsupported type for value during hash"

\* a variant of the map case that hashes nothing and reports no error
hashEntriesUnchecked(keys, entries) == Written(<<>>)

\* hashValue(h, v), lines 244-285
RECURSIVE hashValue(_)
RECURSIVE hashList(_)
RECURSIVE hashEntries(_, _)

\* lines 259-265 (and 233-238): the elements in order, up to the first error
hashList(l) ==
    IF l = <<>> THEN Written(<<>>)
    ELSE LET first == hashValue(Head(l))
             rest == hashList(Tail(l))
         IN IF first.err # Nil THEN first
            ELSE [out |-> first.out \o rest.out, err |-> rest.err]

\* lines 272-280: each key, then its value, up to the first error
hashEntries(keys, entries) ==
    IF keys = <<>> THEN Written(<<>>)
    ELSE LET val == hashValue(MapValue(entries, Head(keys)))
             rest == hashEntries(Tail(keys), entries)
         IN IF val.err # Nil THEN [out |-> Head(keys) \o val.out, err |-> val.err]
            ELSE [out |-> Head(keys) \o val.out \o rest.out, err |-> rest.err]

hashValue(v) ==
    CASE v[1] = "bool"    -> Written(FormatBool(v[2]))
      [] v[1] = "int"     -> Written(FormatInt(v[2]))
      [] v[1] = "float64" -> Written(FormatFloat(v[2]))
      [] v[1] = "string"  -> Written(ToLower(v[2]))
      [] v[1] = "[]interface{}" -> hashList(v[2])
      [] v[1] = "map[string]interface{}" ->
            hashEntries(SortStrings([i \in 1 .. Len(v[2]) |-> v[2][i][1]]), v[2])
      [] OTHER -> [out |-> <<>>, err |-> ErrUnsupportedType]

\* sha256: a digest, taken to be free of collisions
Sha256(bytes) == <<"sha256", bytes>>

\* CacheHash, lines 223-242: fmt.Sprintf("%s:%x", r.Method, sha256.Sum256(hasher.Sum(nil)))
CacheHash(r) ==
    LET h == hashList(r.Params)
    IN IF h.err # Nil THEN [hash |-> <<>>, err |-> h.err]
       ELSE [hash |-> <<r.Method, ":", Sha256(Sha256(h.out))>>, err |-> Nil]

\* the two calls
Hash ==
    /\ hashes = <<>>
    /\ hashes' = <<CacheHash(reqs[1]), CacheHash(reqs[2])>>
    /\ UNCHANGED reqs
    /\ UNCHANGED <<poolVars, parsedVars, decodeVars, transVars, supVars>>

\* two requests; by symmetry the first is an eth_getBalance
InitHash ==
    /\ reqs \in {r \in Requests : r.Method = "eth_getBalance"} \X Requests
    /\ hashes = <<>>
    /\ PoolIdle /\ ParsedIdle /\ DecodeIdle /\ TransIdle /\ SupIdle

NextHash == Hash

SpecHash == InitHash /\ [][NextHash]_vars

\* parameter trees with and without a value of a type hashValue does not
\* know, at the top, in a list, in a map, and two levels down
TreeValues ==
    { BoolV(TRUE), IntV(1), Float64V(1000000), StringV(<<"a">>), NilValue,
      ListV(<<>>),
      ListV(<<StringV(<<"a">>), NilValue>>),
      ListV(<<ListV(<<IntV(1)>>), MapV(<< <<(<<"k">>), BoolV(TRUE)>> >>)>>),
      ListV(<<MapV(<< <<(<<"k">>), NilValue>> >>)>>),
      MapV(<< <<(<<"j">>), StringV(<<"a">>)>>, <<(<<"k">>), NilValue>> >>),
      MapV(<< <<(<<"k">>), ListV(<<IntV(1), NilValue>>)>> >>),
      MapV(<< <<(<<"k">>), MapV(<< <<(<<"j">>), Float64V(1000000)>> >>)>> >>) }

TreeRequests ==
    {[Method |-> m, Params |-> ps] :
        m \in Methods, ps \in UNION {[1 .. n -> TreeValues] : n \in 0 .. MaxParams}}

\* one call of CacheHash
HashTree ==
    /\ hashes = <<>>
    /\ hashes' = <<CacheHash(reqs[1])>>
    /\ UNCHANGED reqs
    /\ UNCHANGED <<poolVars, parsedVars, decodeVars, transVars, supVars>>

InitHashTree ==
    /\ reqs \in {<<r>> : r \in TreeRequests}
    /\ hashes = <<>>
    /\ PoolIdle /\ ParsedIdle /\ DecodeIdle /\ TransIdle /\ SupIdle

NextHashTree == HashTree

SpecHashTree == InitHashTree /\ [][NextHashTree]_vars

(***************************************************************************)
(* Claims about CacheHash                                                  *)
(***************************************************************************)

\* A parameter value up to the case of its string values and the order of
\* its map entries; with keysToo, up to the case of its map keys as well.
RECURSIVE Canon(_, _)
Canon(v, keysToo) ==
    CASE v[1] = "string" -> StringV(ToLower(v[2]))
      [] v[1] = "[]interface{}" -> ListV([i \in 1 .. Len(v[2]) |-> Canon(v[2][i], keysToo)])
      [] v[1] = "map[string]interface{}" ->
            MapV({<<IF keysToo THEN ToLower(v[2][i][1]) ELSE v[2][i][1],
                    Canon(v[2][i][2], keysToo)>> : i \in 1 .. Len(v[2])})
      [] OTHER -> v

CanonParams(r, keysToo) == [i \in 1 .. Len(r.Params) |-> Canon(r.Params[i], keysToo)]

\* C4 (as claimed): two requests with the same method whose parameters are
\* equal up to the case of strings, map keys included, and the order of map
\* keys have the same CacheHash.
C4_SameHashModuloCaseAndOrder ==
    (/\ hashes # <<>>
     /\ reqs[1].Method = reqs[2].Method
     /\ CanonParams(reqs[1], TRUE) = CanonParams(reqs[2], TRUE))
        => hashes[1] = hashes[2]

\* C4 (amended): two requests with the same method whose parameters are equal
\* up to the case of string VALUES and the order of map keys (the keys
\* themselves equal byte for byte) have the same CacheHash result.
C4_SameHashModuloValueCaseAndOrder ==
    (/\ hashes # <<>>
     /\ reqs[1].Method = reqs[2].Method
     /\ CanonParams(reqs[1], FALSE) = CanonParams(reqs[2], FALSE))
        => hashes[1] = hashes[2]

\* C4 witness: two different requests, one with "a" and a map ranged over as
\* j, k, the other with "A" and the same map ranged over as k, j, were hashed
\* to the same fingerprint.
C4_Witness ==
    /\ hashes # <<>>
    /\ reqs[1].Params =
          << StringV(<<"a">>),
             MapV(<< <<(<<"j">>), StringV(<<"a">>)>>, <<(<<"k">>), StringV(<<"A">>)>> >>) >>
    /\ reqs[2].Params =
          << StringV(<<"A">>),
             MapV(<< <<(<<"k">>), StringV(<<"A">>)>>, <<(<<"j">>), StringV(<<"a">>)>> >>) >>
    /\ hashes[1].err = Nil
    /\ hashes[1] = hashes[2]

\* C5 (as claimed): two requests that both have a fingerprint have the same
\* fingerprint only if they have the same method and parameters equal up to
\* string case and map key order.
C5_DifferentRequestsDifferentHash ==
    (/\ hashes # <<>>
     /\ hashes[1].err = Nil
     /\ hashes[2].err = Nil
     /\ hashes[1].hash = hashes[2].hash)
        => /\ reqs[1].Method = reqs[2].Method
           /\ CanonParams(reqs[1], TRUE) = CanonParams(reqs[2], TRUE)

(***************************************************************************)
(* The lenient decoder: JsonRpcResponse.UnmarshalJSON                      *)
(***************************************************************************)

\* JSON values, as <<type, value>>; Absent stands for a key the object lacks.
Absent     == <<"absent", 0>>
JNull      == <<"null", 0>>
JNumber(n) == <<"number", n>>
JString(s) == <<"string", s>>
JArray     == <<"array", 0>>
JObject(o) == <<"object", o>>

\* the values of an "error" key: null, strings, a number, an empty array, and
\* objects with well-typed and with ill-typed code / message / data
ErrorValues ==
    { JNull, JString("boom"), JString(""), JNumber(5), JArray,
      JObject([code |-> JNumber(3), message |-> JString("execution reverted"), data |-> JString("0xdead")]),
      JObject([code |-> JString("E"), message |-> JNumber(7), data |-> JNumber(7)]),
      JObject([code |-> Absent, message |-> Absent, data |-> Absent]) }

\* the top-level objects: each key absent or with one of a few values
Objects ==
    [ jsonrpc : {Absent, JString("2.0"), JNumber(2)},
      id      : {Absent, JNull, JNumber(1)},
      result  : {Absent, JNull, JString("0x1")},
      error   : {Absent} \cup ErrorValues,
      code    : {Absent, JNumber(0), JNumber(429), JString("E429")},
      message : {Absent, JString(""), JString("too many requests"), JNumber(7)},
      data    : {Absent, JString("details"), JNumber(7)} ]

\* The bodies, as <<kind, leading white space, content>>: the empty body, text
\* that is no JSON (given by its first byte), and JSON documents.
EmptyBody == <<"empty", FALSE, 0>>

Bodies ==
    {EmptyBody}
    \cup {<<"text", FALSE, first>> : first \in {"{", "[", "x"}}
    \cup {<<"json", ws, v>> : ws \in BOOLEAN,
                              v \in {JNull, JNumber(1), JString("boom"), JArray}
                                    \cup {JObject(o) : o \in Objects}}

\* a variant of the emptiness test that also takes an object without keys for empty
NothingDecoded(body) ==
    \/ body[1] = "empty"
    \/ /\ body[1] = "json"
       /\ body[3][1] = "object"
       /\ \A k \in DOMAIN body[3][2] : body[3][2][k] = Absent

\* len(data) == 0
IsEmptyData(body) == body[1] = "empty"

\* data[0]
FirstByte(body) ==
    IF body[1] = "text" THEN body[3]
    ELSE IF body[2] THEN " "
    ELSE CASE body[3][1] = "object" -> "{"
           [] body[3][1] = "array"  -> "["
           [] body[3][1] = "string" -> "\""
           [] body[3][1] = "number" -> "1"
           [] OTHER -> "n"

\* A Go string made of a literal text and, for string(data) and %s / %v, of what was formatted.
Text(s) == <<s, <<>>>>

Sprintf(format, v) == <<format, v>>

\* the decode of one JSON value into a Go string, int, json.RawMessage or
\* interface{}: null and a missing key leave the zero value; a value of
\* another type is a type error
IntoString(v) ==
    IF v[1] = "string" THEN [val |-> Text(v[2]), ok |-> TRUE]
    ELSE [val |-> Text(""), ok |-> v \in {Absent, JNull}]

IntoInt(v) ==
    IF v[1] = "number" THEN [val |-> v[2], ok |-> TRUE]
    ELSE [val |-> 0, ok |-> v \in {Absent, JNull}]

\* json.RawMessage: nil when the key is missing, else the raw value (null too)
IntoRawMessage(v) == IF v = Absent THEN <<>> ELSE <<v>>

\* interface{}: nil when the key is missing or null
IntoInterface(v) == IF v \in {Absent, JNull} THEN <<>> ELSE <<v>>

\* int(JsonRpcErrorServerSideException)
ServerSideExceptionCode == <<"JsonRpcErrorNumber", JsonRpcErrorServerSideException>>

IntCode(n) == <<"int", n>>

\* NewErrJsonRpcExceptionExternal(code, message, data)
NewErrJsonRpcExceptionExternal(code, message, dat) ==
    [code |-> code, message |-> message, data |-> dat]

\* a fresh JsonRpcResponse
NewResponse == [JSONRPC |-> Text(""), ID |-> <<>>, Result |-> <<>>, Error |-> <<>>]

\* line 106: sonic.Unmarshal(data, &aux).  No JSON: a syntax error.  null: aux
\* itself becomes nil.  Another JSON value that is no object, or a jsonrpc
\* that is no string: a type error.
UnmarshalAux(body) ==
    IF body[1] # "json" THEN [err |-> "syntax error", auxNil |-> FALSE, fields |-> <<>>]
    ELSE IF body[3] = JNull THEN [err |-> Nil, auxNil |-> TRUE, fields |-> <<>>]
    ELSE IF body[3][1] # "object" THEN [err |-> "type error", auxNil |-> FALSE, fields |-> <<>>]
    ELSE LET o == body[3][2]
             f == <<[JSONRPC |-> IntoString(o.jsonrpc).val,
                     ID |-> IntoInterface(o.id),
                     Result |-> IntoRawMessage(o.result),
                     Error |-> IntoRawMessage(o.error)]>>
         IN [err |-> IF IntoString(o.jsonrpc).ok THEN Nil ELSE "type error",
             auxNil |-> FALSE, fields |-> f]

\* a variant of special case #1 that reads the code only
Sp1CodeOnly(body) ==
    LET o == body[3][2]
    IN [ok |-> IntoInt(o.code).ok /\ IntoString(o.message).ok /\ IntoString(o.data).ok,
        Code |-> IntoInt(o.code).val,
        Message |-> Text(""),
        Data |-> Text("")]

\* lines 113-127, special case #1: a bare code (int), message and data (strings)
Sp1(body) ==
    LET o == body[3][2]
    IN [ok |-> IntoInt(o.code).ok /\ IntoString(o.message).ok /\ IntoString(o.data).ok,
        Code |-> IntoInt(o.code).val,
        Message |-> IntoString(o.message).val,
        Data |-> IntoString(o.data).val]

\* lines 129-139, special case #2: an "error" key holding a string
Sp2(body) ==
    LET o == body[3][2]
    IN [ok |-> IntoString(o.error).ok, Error |-> IntoString(o.error).val]

\* line 141 onwards: what is left when neither special case applies
Unexpected(body) ==
    IF IsEmptyData(body)
    THEN NewErrJsonRpcExceptionExternal(ServerSideExceptionCode,
             Text("unexpected empty response from upstream endpoint"), Text(""))
    ELSE IF FirstByte(body) \in {"{", "["}
    THEN NewErrJsonRpcExceptionExternal(ServerSideExceptionCode,
             Sprintf("unexpected response json structure from upstream: %s", body), Text(""))
    ELSE NewErrJsonRpcExceptionExternal(ServerSideExceptionCode, Sprintf("%s", body), Text(""))

\* lines 111-161: the body decoded to no error, no result and no id
Fallback(body) ==
    IF Sp1(body).ok /\ (Sp1(body).Code # 0 \/ Sp1(body).Message # Text("") \/ Sp1(body).Data # Text(""))
    THEN NewErrJsonRpcExceptionExternal(IntCode(Sp1(body).Code), Sp1(body).Message, Sp1(body).Data)
    ELSE IF Sp2(body).ok /\ Sp2(body).Error # Text("")
    THEN NewErrJsonRpcExceptionExternal(ServerSideExceptionCode, Sp2(body).Error, Text(""))
    ELSE Unexpected(body)

\* a variant of the error decoding that knows objects only
ErrorFieldObjectOnly(e) ==
    IF e[1] = "object"
    THEN LET m == e[2]
         IN NewErrJsonRpcExceptionExternal(
                IntCode(IF m.code[1] = "number" THEN m.code[2] ELSE 0),
                IF m.message[1] = "string" THEN Text(m.message[2]) ELSE Text(""),
                IF m.data = Absent THEN Text("")
                ELSE IF m.data[1] = "string" THEN Text(m.data[2])
                ELSE Sprintf("%v", m.data))
    ELSE NewErrJsonRpcExceptionExternal(IntCode(0), Text(""), Text(""))

\* lines 163-200: the "error" key as an object (or null), else as a string, else zero values
ErrorField(e) ==
    IF e[1] = "object"
    THEN LET m == e[2]
         IN NewErrJsonRpcExceptionExternal(
                IntCode(IF m.code[1] = "number" THEN m.code[2] ELSE 0),
                IF m.message[1] = "string" THEN Text(m.message[2]) ELSE Text(""),
                IF m.data = Absent THEN Text("")
                ELSE IF m.data[1] = "string" THEN Text(m.data[2])
                ELSE Sprintf("%v", m.data))
    ELSE IF e = JNull THEN NewErrJsonRpcExceptionExternal(IntCode(0), Text(""), Text(""))
    ELSE IF e[1] = "string"
    THEN NewErrJsonRpcExceptionExternal(ServerSideExceptionCode, Text(e[2]), Text(""))
    ELSE NewErrJsonRpcExceptionExternal(IntCode(0), Text(""), Text(""))

\* UnmarshalJSON(data) on the response r: the response it leaves and what it does
UnmarshalJSON(r, body) ==
    LET a == UnmarshalAux(body)
        f == a.fields[1]
        decoded == [r EXCEPT !.JSONRPC = f.JSONRPC, !.ID = f.ID, !.Result = f.Result]
    IN IF a.err # Nil
       THEN [r |-> IF a.fields = <<>> THEN r ELSE decoded, ret |-> <<"error", a.err>>]
       ELSE IF a.auxNil
       THEN [r |-> r, ret |-> <<"panic", "nil pointer dereference">>]
       ELSE IF f.Error = <<>> /\ f.Result = <<>> /\ f.ID = <<>>
       THEN [r |-> [decoded EXCEPT !.Error = <<Fallback(body)>>], ret |-> <<"nil", Nil>>]
       ELSE IF f.Error # <<>>
       THEN [r |-> [decoded EXCEPT !.Error = <<ErrorField(f.Error[1])>>], ret |-> <<"nil", Nil>>]
       ELSE [r |-> decoded, ret |-> <<"nil", Nil>>]

\* one response body is decoded into one fresh response
Decode ==
    /\ dret = <<>>
    /\ resp' = <<UnmarshalJSON(resp[1], data[1]).r>>
    /\ dret' = <<UnmarshalJSON(resp[1], data[1]).ret>>
    /\ UNCHANGED <<data, poolVars, parsedVars, hashVars, transVars, supVars>>

InitDecode ==
    /\ data \in {<<b>> : b \in Bodies}
    /\ resp = <<NewResponse>>
    /\ dret = <<>>
    /\ PoolIdle /\ ParsedIdle /\ HashIdle /\ TransIdle /\ SupIdle

NextDecode == Decode

SpecDecode == InitDecode /\ [][NextDecode]_vars

(***************************************************************************)
(* Claims about the lenient decoder                                        *)
(***************************************************************************)

Decoded == dret # <<>>

ResultSet == resp[1].Result # <<>>

ErrorSet == resp[1].Error # <<>>

\* C3: for every body (empty, text that is no JSON, any JSON), UnmarshalJSON
\* never returns a decode error, and the response it leaves has exactly one of
\* Result and Error set.
C3_NeverFailsExactlyOne ==
    Decoded => /\ dret[1][1] = "nil"
               /\ ResultSet # ErrorSet

\* the body has no error, no result and no id
NoEnvelope(body) ==
    \/ body[1] # "json"
    \/ body[3][1] # "object"
    \/ /\ body[3][2].error = Absent
       /\ body[3][2].result = Absent
       /\ body[3][2].id \in {Absent, JNull}

\* fallback (a) matches: an object with a top-level integer code and / or
\* string message / data, one of them not the zero value
BareCodeMessageData(body) ==
    /\ body[1] = "json" /\ body[3][1] = "object"
    /\ LET o == body[3][2]
       IN /\ o.code[1] \in {"absent", "null", "number"}
          /\ o.message[1] \in {"absent", "null", "string"}
          /\ o.data[1] \in {"absent", "null", "string"}
          /\ \/ o.code[1] = "number" /\ o.code[2] # 0
             \/ o.message[1] = "string" /\ o.message[2] # ""
             \/ o.data[1] = "string" /\ o.data[2] # ""

\* fallback (b) matches: an object with a top-level error that is a string
BareStringError(body) ==
    /\ body[1] = "json" /\ body[3][1] = "object"
    /\ body[3][2].error[1] = "string" /\ body[3][2].error[2] # ""

ServerSideError(message) ==
    [code |-> ServerSideExceptionCode, message |-> message, data |-> Text("")]

\* the error of the first fallback, in the order (a) .. (e), that matches the body
FirstMatchingFallback(body) ==
    IF BareCodeMessageData(body)
    THEN LET o == body[3][2]
         IN [code |-> IntCode(IF o.code[1] = "number" THEN o.code[2] ELSE 0),
             message |-> Text(IF o.message[1] = "string" THEN o.message[2] ELSE ""),
             data |-> Text(IF o.data[1] = "string" THEN o.data[2] ELSE "")]
    ELSE IF BareStringError(body)
    THEN ServerSideError(Text(body[3][2].error[2]))
    ELSE IF body = EmptyBody
    THEN ServerSideError(Text("unexpected empty response from upstream endpoint"))
    ELSE IF FirstByte(body) \in {"{", "["}
    THEN ServerSideError(Sprintf("unexpected response json structure from upstream: %s", body))
    ELSE ServerSideError(Sprintf("%s", body))

\* C9: a body with no error, no result and no id ends with the error of the
\* first matching fallback in the order (a) bare code / message / data,
\* (b) bare string error, (c) empty body, (d) body starting with { or [,
\* (e) plain text, so that each fallback is taken for the bodies it matches.
C9_FirstMatchingFallbackWins ==
    Decoded /\ NoEnvelope(data[1])
        => /\ dret[1][1] = "nil"
           /\ resp[1].Error = <<FirstMatchingFallback(data[1])>>

\* the body {}
EmptyObjectBody ==
    <<"json", FALSE, JObject([jsonrpc |-> Absent, id |-> Absent, result |-> Absent,
                              error |-> Absent, code |-> Absent, message |-> Absent,
                              data |-> Absent])>>

\* C10 as stated: decoding the body {} yields a response whose error message
\* is "unexpected empty response from upstream endpoint".
C10_EmptyObjectIsEmptyResponse ==
    Decoded /\ data[1] = EmptyObjectBody
        => /\ ErrorSet
           /\ resp[1].Error[1].message = Text("unexpected empty response from upstream endpoint")

\* C10 as the code has it: decoding the body {} returns nil and yields a
\* response with no result whose error has the server-side exception code and
\* the message "unexpected response json structure from upstream: {}".
C10_EmptyObjectIsUnexpectedStructure ==
    Decoded /\ data[1] = EmptyObjectBody
        => /\ dret[1][1] = "nil"
           /\ ~ResultSet
           /\ resp[1].Error =
                  <<ServerSideError(Sprintf("unexpected response json structure from upstream: %s",
                                            EmptyObjectBody))>>

C10_Witness == Decoded /\ data[1] = EmptyObjectBody /\ ErrorSet

\* an object that decodes, with no id, result or error, whose code, message
\* and data are each missing or of the right type, one of them present
BareObject(body) ==
    /\ body[1] = "json" /\ body[3][1] = "object"
    /\ LET o == body[3][2]
       IN /\ o.error = Absent /\ o.result = Absent /\ o.id \in {Absent, JNull}
          /\ o.jsonrpc[1] \in {"absent", "string"}
          /\ o.code[1] \in {"absent", "number"}
          /\ o.message[1] \in {"absent", "string"}
          /\ o.data[1] \in {"absent", "string"}
          /\ \E k \in {"code", "message", "data"} : o[k] # Absent

\* the error made of exactly the code, message and data of the body
BareError(body) ==
    LET o == body[3][2]
    IN [code |-> IntCode(IF o.code[1] = "number" THEN o.code[2] ELSE 0),
        message |-> Text(IF o.message[1] = "string" THEN o.message[2] ELSE ""),
        data |-> Text(IF o.data[1] = "string" THEN o.data[2] ELSE "")]

\* C11 as stated: an object with no id, result or error but with a top-level
\* integer code and / or string message / data decodes to a response with no
\* result whose Error carries exactly that code, message and data.
C11_BareErrorCarried ==
    Decoded /\ BareObject(data[1])
        => /\ dret[1][1] = "nil"
           /\ ~ResultSet
           /\ resp[1].Error = <<BareError(data[1])>>

\* C11 as the code has it: the same, provided the code is not 0 or the message
\* or the data is not the empty string; when all three are zero values the
\* error is the server-side one for an unexpected body.
C11_NonZeroBareErrorCarried ==
    Decoded /\ BareObject(data[1])
        => /\ dret[1][1] = "nil"
           /\ ~ResultSet
           /\ resp[1].Error = <<IF BareCodeMessageData(data[1])
                                THEN BareError(data[1])
                                ELSE Unexpected(data[1])>>

TooManyRequestsBody ==
    <<"json", FALSE, JObject([jsonrpc |-> Absent, id |-> Absent, result |-> Absent,
                              error |-> Absent, code |-> JNumber(429),
                              message |-> JString("too many requests"),
                              data |-> Absent])>>

C11_Witness ==
    /\ Decoded /\ data[1] = TooManyRequestsBody
    /\ resp[1].Error = <<[code |-> IntCode(429), message |-> Text("too many requests"),
                          data |-> Text("")]>>

\* the body decodes to an envelope that has an error key
CarriesError(body) ==
    /\ body[1] = "json" /\ body[3][1] = "object"
    /\ body[3][2].jsonrpc[1] # "number"
    /\ body[3][2].error # Absent

\* C12: when the decoded envelope carries an error sub-document that is an
\* object, the response's Error takes its code from the numeric code, its
\* message from the string message and its data from data (stringified when
\* no string); when it is a bare string s, the Error has the generic
\* server-side-exception code and the message s.
C12_ErrorSubDocument ==
    Decoded /\ CarriesError(data[1])
        => LET e == data[1][3][2].error
           IN /\ dret[1][1] = "nil"
              /\ e[1] = "object" =>
                    resp[1].Error =
                        <<[code |-> IntCode(IF e[2].code[1] = "number" THEN e[2].code[2] ELSE 0),
                           message |-> Text(IF e[2].message[1] = "string"
                                            THEN e[2].message[2] ELSE ""),
                           data |-> IF e[2].data[1] = "string" THEN Text(e[2].data[2])
                                    ELSE IF e[2].data[1] = "absent" THEN Text("")
                                    ELSE Sprintf("%v", e[2].data)]>>
              /\ e[1] = "string" => resp[1].Error = <<ServerSideError(Text(e[2]))>>

C12_Witness ==
    /\ Decoded /\ CarriesError(data[1])
    /\ data[1][3][2].error = JString("boom")
    /\ resp[1].Error = <<ServerSideError(Text("boom"))>>

\* the same for an error object whose data is no string
C12_ObjectReached ==
    /\ Decoded /\ CarriesError(data[1])
    /\ data[1][3][2].error[1] = "object"
    /\ ErrorSet /\ resp[1].Error[1].data = Sprintf("%v", JNumber(7))

(***************************************************************************)
(* Claims about the errors of CacheHash                                    *)
(***************************************************************************)

SupportedShapes ==
    {"bool", "int", "float64", "string", "[]interface{}", "map[string]interface{}"}

\* some value of the tree, at any depth, is of no supported shape
RECURSIVE HasUnsupported(_)
HasUnsupported(v) ==
    \/ v[1] \notin SupportedShapes
    \/ /\ v[1] = "[]interface{}"
       /\ \E i \in 1 .. Len(v[2]) : HasUnsupported(v[2][i])
    \/ /\ v[1] = "map[string]interface{}"
       /\ \E i \in 1 .. Len(v[2]) : HasUnsupported(v[2][i][2])

MaxIdLen == 3

\* the characters of that text: digits, signs and a letter
IdChars == {"0", "1", "2", "+", "-", "x"}

\* what identifiers start with: "evm:", "evm" without the colon, "solana:"
IdPrefixes ==
    { <<"e", "v", "m", ":">>, <<"e", "v", "m">>, <<"s", "o", "l", "a", "n", "a", ":">> }

NetworkIds ==
    {pre \o t : pre \in IdPrefixes, t \in UNION {[1 .. n -> IdChars] : n \in 0 .. MaxIdLen}}

\* strings.HasPrefix(s, prefix)
HasPrefix(s, prefix) == Len(s) >= Len(prefix) /\ SubSeq(s, 1, Len(prefix)) = prefix

DigitValue(c) == CHOOSE d \in 0 .. 9 : Digits[d + 1] = c

IsDigit(c) == \E d \in 0 .. 9 : Digits[d + 1] = c

\* the value of a run of decimal digits
RECURSIVE ParseDigits(_)
ParseDigits(s) ==
    IF s = <<>> THEN 0
    ELSE 10 * ParseDigits(SubSeq(s, 1, Len(s) - 1)) + DigitValue(s[Len(s)])

\* strconv.ParseInt(s, 10, 64): an optional sign, then one or more digits
ParseInt(s) ==
    LET signed == s # <<>> /\ s[1] \in {"+", "-"}
        digits == IF signed THEN Tail(s) ELSE s
    IN IF digits = <<>> \/ \E i \in 1 .. Len(digits) : ~IsDigit(digits[i])
       THEN [val |-> 0, err |-> "invalid syntax"]
       ELSE [val |-> IF signed /\ s[1] = "-" THEN 0 - ParseDigits(digits)
                     ELSE ParseDigits(digits),
             err |-> Nil]

\* a registry test that takes the chain of any parsed identifier for known
InRegistryOrParsed(chainId) == TRUE

\* _, ok := drpcNetworkNames[chainId]
InRegistry(chainId) == chainId \in DOMAIN drpcNetworkNames

\* SupportsNetwork(networkId), lines 495-507
SupportsNetworkOf(id) ==
    IF ~HasPrefix(id, <<"e", "v", "m", ":">>) THEN [ok |-> FALSE, err |-> Nil]
    ELSE LET chainId == ParseInt(SubSeq(id, 5, Len(id)))
         IN IF chainId.err # Nil THEN [ok |-> FALSE, err |-> chainId.err]
            ELSE [ok |-> InRegistry(chainId.val), err |-> Nil]

\* one call of SupportsNetwork
SupportsNetwork ==
    /\ supports = <<>>
    /\ supports' = <<SupportsNetworkOf(networkId[1])>>
    /\ UNCHANGED networkId
    /\ UNCHANGED <<poolVars, parsedVars, decodeVars, hashVars, transVars>>

InitSupports ==
    /\ networkId \in {<<id>> : id \in NetworkIds}
    /\ supports = <<>>
    /\ PoolIdle /\ ParsedIdle /\ DecodeIdle /\ HashIdle /\ TransIdle

NextSupports == SupportsNetwork

SpecSupports == InitSupports /\ [][NextSupports]_vars

(***************************************************************************)
(* Claims about SupportsNetwork                                            *)
(***************************************************************************)

EvmPrefix == <<"e", "v", "m", ":">>

ArchChars == ("evm" :> <<"e", "v", "m">>) @@ ("solana" :> <<"s", "o", "l", "a", "n", "a">>)

\* networks that have a chain id, and their identifier "<architecture>:<chainId>"
IdNetworks ==
    {[arch |-> a, chain |-> c, chainErr |-> FALSE] :
        a \in DOMAIN ArchChars, c \in {0, 1, 2, 10, 11, 12, 20, 100, 101, 110, 200}}

IdString(n) == ArchChars[n.arch] \o <<":">> \o FormatInt(n.chain)

\* the text t writes the chain id c: its decimal digits, after an optional
\* plus sign and zeros
RECURSIVE Denotes(_, _)
Denotes(t, c) ==
    \/ t = FormatInt(c)
    \/ /\ Len(t) > 1
       /\ t[1] \in {"+", "0"}
       /\ \A i \in 2 .. Len(t) : IsDigit(t[i])
       /\ Denotes(Tail(t), c)

\* C14: SupportsNetwork(networkId) returns true only if networkId is
\* "evm:<chainId>" with <chainId> a key of the Chain Registry, and for the
\* identifier of a network it is true exactly when the validation of
\* getOrCreateClient on an empty map (architecture, chain id, registry
\* lookup) succeeds for that network.
C14_SupportsAgreesWithResolve ==
    supports # <<>> =>
        LET id == networkId[1]
            s == supports[1]
        IN /\ s.ok => /\ HasPrefix(id, EvmPrefix)
                      /\ \E c \in DOMAIN drpcNetworkNames :
                            Denotes(SubSeq(id, 5, Len(id)), c)
           /\ \A n \in IdNetworks :
                 IdString(n) = id => (s.ok <=> Validate(n).err = Nil)

C14_Witness ==
    /\ supports # <<>>
    /\ networkId[1] = EvmPrefix \o <<"1", "0">>
    /\ supports[1] = [ok |-> TRUE, err |-> Nil]

\* an identifier of an EVM network outside the registry has been refused
C14_RefusedReached ==
    /\ supports # <<>>
    /\ networkId[1] = EvmPrefix \o <<"2">>
    /\ supports[1] = [ok |-> FALSE, err |-> Nil]

(***************************************************************************)
(* Claims about SendRequest and the life of the client map                 *)
(***************************************************************************)

\* C15: a SendRequest whose request carries no network returns the error at
\* once, with no resolution and no client constructed; one whose resolution
\* failed returns that error and sends on no client; any other sends once, on
\* the client the resolution returned and with the caller's context, and
\* returns what that send returned; nothing is sent before or after (no retry).
C15_SendRequestDelegates ==
    [][\A p \in Callers :
          /\ (pc[p] = "idle" /\ pc'[p] # "idle" /\ network'[p] = NilNetwork) =>
                /\ pc'[p] = "done"
                /\ out'[p] = [NoOut EXCEPT !.err = ErrNoNetwork]
                /\ clients' = clients /\ built' = built /\ resolved' = resolved /\ mu' = mu
          /\ (pc[p] = "resolved" /\ pc'[p] = "done") =>
                IF err[p] # Nil
                THEN out'[p] = [NoOut EXCEPT !.err = err[p]]
                ELSE /\ [network |-> Id(network[p]), client |-> client[p], err |-> Nil]
                            \in resolved
                     /\ client[p].inst # 0
                     /\ out'[p].sentOn = client[p].inst
                     /\ out'[p].ctx = p
                     /\ out'[p] \in {TransportSend(client[p], o, p) : o \in SendOutcomes}
          /\ out'[p].sentOn # out[p].sentOn => pc[p] = "resolved"
          /\ pc[p] = "done" => (pc'[p] = "done" /\ out'[p] = out[p])
      ]_vars

\* C15 witness: one call without a network, one whose resolution failed and
\* one that sent and got a transport error have all returned.
C15_Witness ==
    \E p, q, r \in Callers :
        /\ pc[p] = "done" /\ pc[q] = "done" /\ pc[r] = "done"
        /\ out[p] = [NoOut EXCEPT !.err = ErrNoNetwork]
        /\ out[q] = [NoOut EXCEPT !.err = ErrChainID]
        /\ out[r].sentOn # 0 /\ out[r].err = "transport error" /\ out[r].ctx = r

\* C16: an entry of the client map is never evicted or replaced: a network
\* identifier the map holds a client for keeps that same client in the next
\* state, and a resolution of that network that returns gives that client
\* and no error.
C16_EntriesNeverEvicted ==
    [][\A id \in DOMAIN clients :
          /\ id \in DOMAIN clients'
          /\ clients'[id] = clients[id]
          /\ \A p \in Callers :
                (pc[p] # "resolved" /\ pc'[p] = "resolved" /\ Id(network[p]) = id) =>
                    /\ client'[p] = clients[id]
                    /\ err'[p] = Nil
                    /\ [network |-> id, client |-> clients[id], err |-> Nil] \in resolved'
      ]_vars

\* C16 witness: the map holds clients for two networks, and a caller that
\* found its network on the first, shared look has sent on the client held.
C16_Witness ==
    /\ Cardinality(DOMAIN clients) = 2
    /\ \E p \in Callers :
          /\ pc[p] = "done" /\ exists[p]
          /\ Id(network[p]) \in DOMAIN clients
          /\ out[p].sentOn = clients[Id(network[p])].inst

\* C17: a resolution of a network the client map already holds never blocks:
\* it returns on the shared path without taking the exclusive lock, and its
\* c.mu.RLock() is never kept waiting by the first-time resolution of another
\* network, which holds the exclusive lock while it validates the network
\* and constructs the client.
C17_ResolvedNeverBlocks ==
    \A p \in Callers :
        /\ pc[p] \in {"Lock", "locked", "Unlock"} => ~exists[p]
        /\ (pc[p] = "RLock" /\ Id(network[p]) \in DOMAIN clients) =>
              ~\E q \in Callers : mu.w = q /\ Id(network[q]) # Id(network[p])

(***************************************************************************)
(* The two locks together, under fair scheduling                           *)
(***************************************************************************)

\* Callers of the adapter or callers of one response: the adapter's callers
\* run while the response is untouched, the response's while the adapter is.
\* A call of the adapter is followed up to the return of getOrCreateClient.
InitLocks == InitParsed

NextLocks ==
    \E p \in Callers :
        \/ ParsedIdle /\ SendRequest(p)
        \/ ParsedIdle /\ RLock(p)
        \/ ParsedIdle /\ RUnlock(p)
        \/ ParsedIdle /\ Lock(p)
        \/ ParsedIdle /\ CheckAndBuild(p)
        \/ ParsedIdle /\ Unlock(p)
        \/ PoolIdle /\ ParsedResult(p)
        \/ PoolIdle /\ ParsedRLock(p)
        \/ PoolIdle /\ ParsedRUnlock(p)
        \/ PoolIdle /\ ParsedLock(p)
        \/ PoolIdle /\ ParsedCompute(p)
        \/ PoolIdle /\ ParsedUnlock(p)

\* the steps of a call that has been made: a goroutine that can run does run,
\* and a goroutine waiting for a lock that stays free gets it
Proceed(p) ==
    \/ RLock(p) \/ RUnlock(p) \/ Lock(p) \/ CheckAndBuild(p) \/ Unlock(p)
    \/ ParsedRLock(p) \/ ParsedRUnlock(p) \/ ParsedLock(p) \/ ParsedCompute(p)
    \/ ParsedUnlock(p)

SpecLocksFair ==
    InitLocks /\ [][NextLocks]_vars /\ \A p \in Callers : WF_vars(Proceed(p))

Returned(p) == pc[p] \in {"idle", "resolved", "done"}

ParsedReturned(p) == ppc[p] \in {"idle", "done"}

\* no caller holds a lock it should not: none waits for the exclusive lock
\* with the shared one in hand, and none holds a lock outside its call
LocksReleased ==
    \A p \in Callers :
        /\ pc[p] = "Lock" => p \notin mu.r
        /\ ppc[p] = "Lock" => p \notin rmu.r
        /\ Returned(p) => (mu.w # p /\ p \notin mu.r)
        /\ ParsedReturned(p) => (rmu.w # p /\ p \notin rmu.r)

C18_ParsedReached ==
    /\ \A p \in Callers : ppc[p] = "done"
    /\ Result \in {Nil, "{\"a\":", "faults"}
    /\ rmu = [w |-> 0, r |-> {}]

\* who is in a section of the code that reads or writes the client map, and
\* who in one that reads or writes the parsed-result cache
MapReaders == {p \in Callers : pc[p] = "RUnlock"}

MapWriters == {p \in Callers : pc[p] \in {"locked", "Unlock"}}

CacheReaders == {p \in Callers : ppc[p] \in {"RUnlock", "RUnlock return"}}

CacheWriters == {p \in Callers : ppc[p] \in {"locked", "Unlock"}}

\* every reader holds the shared lock, every writer the exclusive one, and a
\* writer is alone
Exclusion ==
    /\ \A p \in MapReaders : p \in mu.r /\ mu.w = 0
    /\ \A p \in MapWriters : mu.w = p /\ mu.r = {} /\ MapWriters = {p} /\ MapReaders = {}
    /\ \A p \in CacheReaders : p \in rmu.r /\ rmu.w = 0
    /\ \A p \in CacheWriters :
          rmu.w = p /\ rmu.r = {} /\ CacheWriters = {p} /\ CacheReaders = {}

\* C19: every write to the adapter's client map and to a response's
\* parsed-result cache is made by the holder of the exclusive lock, every
\* read of them by a holder of the shared or the exclusive lock, and no
\* state has a writer in its critical section together with another reader
\* or writer of the same map or cache.
C19_AccessUnderLock ==
    /\ []Exclusion
    /\ [][/\ clients' # clients => \E p \in Callers : mu.w = p /\ pc[p] = "locked"
          /\ parsedResult' # parsedResult =>
                \E p \in Callers : rmu.w = p /\ ppc[p] = "locked"
          /\ \A p \in Callers :
                /\ (client'[p] # client[p] \/ exists'[p] # exists[p]) =>
                      (p \in mu.r' \/ mu.w = p)
                /\ pret'[p] # pret[p] => (p \in rmu.r' \/ rmu.w = p)
         ]_vars

\* C19 witness: a caller that has written the client map still holds the
\* exclusive lock while another waits for the shared lock and a third for
\* the exclusive one.
C19_Witness ==
    \E p, q, r \in Callers :
        /\ pc[p] = "Unlock" /\ mu.w = p /\ Id(network[p]) \in DOMAIN clients
        /\ client[p] = clients[Id(network[p])] /\ ~exists[p]
        /\ pc[q] = "RLock"
        /\ pc[r] = "Lock"

\* the same for the cache of a response
C19_CacheReached ==
    \E p, q \in Callers :
        /\ ppc[p] = "Unlock" /\ rmu.w = p /\ parsedResult # Nil
        /\ ppc[q] = "Lock"

\* C20: in every reachable state each entry of the client map is keyed by
\* the identifier of an EVM network whose chain id is a key of the Chain
\* Registry, and its client was built for the endpoint URL made of the
\* registry slug of that chain id and the adapter's API key; no entry holds
\* a client built for the slug of another network.
C20_EntriesMatchRegistry ==
    \A id \in DOMAIN clients :
        /\ \E n \in Networks :
              /\ Supported(n)
              /\ Id(n) = id
              /\ clients[id].url =
                    <<"https://lb.drpc.org/ogrpc?network=", drpcNetworkNames[n.chain],
                      "&dkey=", apiKey>>
        /\ \A n \in Networks :
              (Supported(n) /\ Id(n) # id) => clients[id].url[2] # drpcNetworkNames[n.chain]
        /\ [network |-> id, client |-> clients[id]] \in built

\* C20 witness: the map holds the clients of two networks, each built for its own slug
C20_Witness ==
    /\ DOMAIN clients = {<<ArchitectureEvm, 1>>, <<ArchitectureEvm, 10>>}
    /\ clients[<<ArchitectureEvm, 1>>].url[2] = "ethereum"
    /\ clients[<<ArchitectureEvm, 10>>].url[2] = "optimism"
    /\ \E p \in Callers : pc[p] = "done" /\ Unsupported(network[p])

====
